---- MODULE Spec2Model ----
(***************************************************************************)
(* Control logic of the Sony IMX662 sensor driver                          *)
(* (drivers/media/i2c/imx662.c): the register writes issued by the stream  *)
(* start/stop sequences, the control handlers and the format handlers,     *)
(* executed one register write per step by a call stack per caller.        *)
(***************************************************************************)
EXTENDS Integers, Sequences, FiniteSets, TLC

----------------------------------------------------------------------------
(* Register map (imx662.c:34-72)                                           *)

IMX662_STANDBY == \h3000
IMX662_REGHOLD == \h3001
IMX662_XMSTA == \h3002
IMX662_INCK_SEL == \h3014
IMX662_LANE_RATE == \h3015
IMX662_LANE_RATE_1188 == \h04
IMX662_LANE_RATE_594 == \h07
IMX662_FLIP_WINMODEH == \h3020
IMX662_FLIP_WINMODEV == \h3021
IMX662_ADBIT == \h3022
IMX662_MDBIT == \h3023
IMX662_VMAX == \h3028
IMX662_VMAX_MAX == \h03ffff
IMX662_HMAX == \h302c
IMX662_HMAX_MAX == \hffff
IMX662_FR_FDG_SEL0 == \h3030
IMX662_FDG_SEL0_LCG == \h00
IMX662_FDG_SEL0_HCG == \h01
IMX662_FR_FDG_SEL1 == \h3031
IMX662_FR_FDG_SEL2 == \h3032
IMX662_CSI_LANE_MODE == \h3040
IMX662_EXPOSURE == \h3050
IMX662_GAIN == \h3070

IMX662_EXPOSURE_MIN == 1
IMX662_EXPOSURE_STEP == 1
IMX662_EXPOSURE_OFFSET == 4

IMX662_NUM_FORMATS == 2

(* media bus codes named by the two format tables *)
MEDIA_BUS_FMT_SRGGB10_1X10 == \h300f
MEDIA_BUS_FMT_SRGGB12_1X12 == \h3012
MEDIA_BUS_FMT_Y10_1X10 == \h200a
MEDIA_BUS_FMT_Y12_1X12 == \h2013

imx662_colour_formats ==
  << [code |-> MEDIA_BUS_FMT_SRGGB10_1X10, bpp |-> 10],
     [code |-> MEDIA_BUS_FMT_SRGGB12_1X12, bpp |-> 12] >>

imx662_mono_formats ==
  << [code |-> MEDIA_BUS_FMT_Y10_1X10, bpp |-> 10],
     [code |-> MEDIA_BUS_FMT_Y12_1X12, bpp |-> 12] >>

imx662_global_settings ==
  <<
    <<\h3002, \h00>>, <<\h301A, \h00>>, <<\h301B, \h00>>, <<\h301C, \h00>>, <<\h301E, \h01>>, <<\h303C, \h00>>,
    <<\h303D, \h00>>, <<\h303E, \h90>>, <<\h303F, \h07>>, <<\h3044, \h00>>, <<\h3045, \h00>>, <<\h3046, \h4C>>,
    <<\h3047, \h04>>, <<\h3060, \h16>>, <<\h3061, \h01>>, <<\h3062, \h00>>, <<\h3064, \hC4>>, <<\h3065, \h0C>>,
    <<\h3066, \h00>>, <<\h3069, \h00>>, <<\h3072, \h00>>, <<\h3073, \h00>>, <<\h3074, \h00>>, <<\h3075, \h00>>,
    <<\h3081, \h00>>, <<\h308C, \h00>>, <<\h308D, \h01>>, <<\h3094, \h00>>, <<\h3095, \h00>>, <<\h3096, \h00>>,
    <<\h3097, \h00>>, <<\h309C, \h00>>, <<\h309D, \h00>>, <<\h30A4, \hAA>>, <<\h30A6, \h0F>>, <<\h30CC, \h00>>,
    <<\h30CD, \h00>>, <<\h3400, \h01>>, <<\h3444, \hAC>>, <<\h3460, \h21>>, <<\h3492, \h08>>, <<\h3A50, \hFF>>,
    <<\h3A51, \h03>>, <<\h3A52, \h00>>, <<\h3B00, \h39>>, <<\h3B23, \h2D>>, <<\h3B45, \h04>>, <<\h3C0A, \h1F>>,
    <<\h3C0B, \h1E>>, <<\h3C38, \h21>>, <<\h3C40, \h06>>, <<\h3C44, \h00>>, <<\h3CB6, \hD8>>, <<\h3CC4, \hDA>>,
    <<\h3E24, \h79>>, <<\h3E2C, \h15>>, <<\h3EDC, \h2D>>, <<\h4498, \h05>>, <<\h449C, \h19>>, <<\h449D, \h00>>,
    <<\h449E, \h32>>, <<\h449F, \h01>>, <<\h44A0, \h92>>, <<\h44A2, \h91>>, <<\h44A4, \h8C>>, <<\h44A6, \h87>>,
    <<\h44A8, \h82>>, <<\h44AA, \h78>>, <<\h44AC, \h6E>>, <<\h44AE, \h69>>, <<\h44B0, \h92>>, <<\h44B2, \h91>>,
    <<\h44B4, \h8C>>, <<\h44B6, \h87>>, <<\h44B8, \h82>>, <<\h44BA, \h78>>, <<\h44BC, \h6E>>, <<\h44BE, \h69>>,
    <<\h44C1, \h01>>, <<\h44C2, \h7F>>, <<\h44C3, \h01>>, <<\h44C4, \h7A>>, <<\h44C5, \h01>>, <<\h44C6, \h7A>>,
    <<\h44C7, \h01>>, <<\h44C8, \h70>>, <<\h44C9, \h01>>, <<\h44CA, \h6B>>, <<\h44CB, \h01>>, <<\h44CC, \h6B>>,
    <<\h44CD, \h01>>, <<\h44CE, \h5C>>, <<\h44CF, \h01>>, <<\h44D0, \h7F>>, <<\h44D1, \h01>>, <<\h44D2, \h7F>>,
    <<\h44D3, \h01>>, <<\h44D4, \h7A>>, <<\h44D5, \h01>>, <<\h44D6, \h7A>>, <<\h44D7, \h01>>, <<\h44D8, \h70>>,
    <<\h44D9, \h01>>, <<\h44DA, \h6B>>, <<\h44DB, \h01>>, <<\h44DC, \h6B>>, <<\h44DD, \h01>>, <<\h44DE, \h5C>>,
    <<\h44DF, \h01>>, <<\h4534, \h1C>>, <<\h4535, \h03>>, <<\h4538, \h1C>>, <<\h4539, \h1C>>, <<\h453A, \h1C>>,
    <<\h453B, \h1C>>, <<\h453C, \h1C>>, <<\h453D, \h1C>>, <<\h453E, \h1C>>, <<\h453F, \h1C>>, <<\h4540, \h1C>>,
    <<\h4541, \h03>>, <<\h4542, \h03>>, <<\h4543, \h03>>, <<\h4544, \h03>>, <<\h4545, \h03>>, <<\h4546, \h03>>,
    <<\h4547, \h03>>, <<\h4548, \h03>>, <<\h4549, \h03>>
  >>

imx662_1080p_common_settings ==
  << <<\h3018, \h00>>, <<IMX662_FR_FDG_SEL1, \h00>>, <<IMX662_FR_FDG_SEL2, \h00>> >>

imx662_modes ==
  << [width |-> 1936, height |-> 1100, hmax |-> \h3de * 2, vmax |-> \h04e2,
      mode_data |-> imx662_1080p_common_settings,
      mode_data_size |-> Len(imx662_1080p_common_settings)] >>

IMX662_NUM_MODES == Len(imx662_modes)

(* errno values returned by the handlers *)
EIO == 5
EINVAL == 22
EBUSY == 16
ETIMEDOUT == 110

----------------------------------------------------------------------------
(* Bounds of the model                                                     *)

(* public calls one behaviour makes, callers one after the other *)
MaxOps == 3
(* public calls one behaviour makes when the two callers run concurrently *)
MaxOpsConc == 2
(* register writes the transport fails during one public call *)
MaxFails == 1
(* the same, when the two callers run concurrently *)
MaxFailsConc == 0
(* requested vblank / hblank values lie this far above the control minimum *)
BlankSpan == 1
(* requested exposure values lie this far below the construction maximum *)
ExposureSpan == 2

Threads == {"s", "c"}

(* errors regmap_write can hand back *)
TransportErrors == {-EIO, -ETIMEDOUT}

(* probe configurations: lane count, INCK_SEL code, format table *)
ProbeConfigs ==
  { [nlanes |-> 2, inck_sel |-> 0, formats |-> imx662_colour_formats],
    [nlanes |-> 4, inck_sel |-> 4, formats |-> imx662_mono_formats] }

(* the controls with a set handler, in the order probe creates them *)
CtrlOrder == <<"gain", "hblank", "vblank", "exposure", "hflip", "vflip">>
CtrlIds == {CtrlOrder[i] : i \in 1..Len(CtrlOrder)}
(* the 64-bit read-only control probe creates with the same ops; it has no   *)
(* case in the switch of imx662_set_ctrl                                     *)
PixelRate == "pixel_rate"
INT_MAX == 2147483647
imx662_calc_pixel_rate == 148500000

V4L2_SUBDEV_FORMAT_TRY == "TRY"
V4L2_SUBDEV_FORMAT_ACTIVE == "ACTIVE"

VARIABLES
  cfg,             \* nlanes, inck_sel, formats: fixed by probe
  ctrls,           \* the v4l2 controls: cur, val (new), range, GRABBED flag
  current_format,  \* imx662->current_format
  try_format,      \* the pad's try format
  current_mode,    \* imx662->current_mode, an index of imx662_modes
  bpp,             \* imx662->bpp
  usage_count,     \* runtime-PM usage count of the device
  hdl_lock,        \* owner of the control handler's mutex
  lock,            \* owner of imx662->lock
  bus,             \* per caller: register writes and sleeps of its call in progress
  regs,            \* the device's VMAX and exposure registers, byte by byte
  ilv,             \* per caller: how the other caller's writes fell among its own
  grp,             \* per caller: the held group its call began last
  failsLeft,       \* per caller: writes the transport may still fail in its call
  stk,             \* per caller: call stack of frames
  rv,              \* per caller: value the last returned function returned
  call,            \* per caller: the public call in progress
  fmtarg,          \* per caller: the v4l2_subdev_format handed to set/get_fmt
  snap,            \* per caller: driver state when its call began
  lastStream,      \* how the last completed set_stream call ended
  offline,         \* controls changed while powered down and not re-applied since
  timingOnly,      \* since the last successful start, only successful powered
                   \* set_control calls on vblank or exposure have completed
  opsLeft,         \* public calls the behaviour may still begin
  conc             \* whether the two callers may overlap

drvVars == <<current_format, try_format, current_mode, bpp>>
vars == <<cfg, ctrls, current_format, try_format, current_mode, bpp, usage_count,
          hdl_lock, lock, bus, regs, ilv, grp, failsLeft, stk, rv, call, fmtarg, snap,
          lastStream, offline, timingOnly, opsLeft, conc>>

----------------------------------------------------------------------------
(* Helpers                                                                 *)

Min(a, b) == IF a < b THEN a ELSE b
Max(a, b) == IF a > b THEN a ELSE b
Abs(a) == IF a < 0 THEN -a ELSE a

Mode == imx662_modes[current_mode]

Frame(fn, pc, a, b, c, d) == [fn |-> fn, pc |-> pc, a |-> a, b |-> b, c |-> c, d |-> d]
NoCall == [op |-> "none", a |-> 0, b |-> 0]
NoFmt == [which |-> "none", width |-> 0, height |-> 0, code |-> 0]

Running(t) == stk[t] # <<>>
Top(t) == Head(stk[t])
In(t, fn) == Running(t) /\ Top(t).fn = fn

(* go on at pc in the same function *)
Goto(t, pc) == /\ stk' = [stk EXCEPT ![t] = <<[Top(t) EXCEPT !.pc = pc]>> \o Tail(@)]
               /\ UNCHANGED rv
GotoWith(t, f) == /\ stk' = [stk EXCEPT ![t] = <<f>> \o Tail(@)]
                  /\ UNCHANGED rv
(* call g, and resume the caller's frame f when g returns *)
CallFn(t, f, g) == /\ stk' = [stk EXCEPT ![t] = <<g, f>> \o Tail(@)]
                   /\ UNCHANGED rv
(* a caller resumed at a point that only hands the callee's result on:      *)
(* `if (ret < 0) return ret;`, `if (ret) return ret;` or `return ret;`       *)
Propagates(f, v) ==
  \/ f.fn = "imx662_start_streaming" /\ f.pc \in {"inck", "mode", "lane_mode"} /\ v < 0
  \/ f.fn = "imx662_start_streaming" /\ f.pc = "standby" /\ v # 0
  \/ f.fn = "imx662_set_gain" /\ f.pc = "fdg" /\ v # 0
  \/ f.fn \in {"imx662_set_exposure", "imx662_set_hmax", "v4l2_ctrl_modify_range"}
       /\ f.pc = "ret"

RECURSIVE Unwind(_, _)
Unwind(stack, v) ==
  IF stack # << >> /\ Propagates(Head(stack), v) THEN Unwind(Tail(stack), v) ELSE stack

(* return v, through every caller that only hands it on *)
Return(t, v) == /\ stk' = [stk EXCEPT ![t] = Unwind(Tail(@), v)]
                /\ rv' = [rv EXCEPT ![t] = v]
At(f, pc) == [f EXCEPT !.pc = pc]

(* one entry of a bus trace *)
WriteEv(addr, val, res) == [k |-> "w", addr |-> addr, val |-> val, res |-> res]
SleepEv(ms) == [k |-> "sleep", addr |-> 0, val |-> ms, res |-> 0]

(* ilv[t]: mid = the other caller wrote after t's call had written; split = t  *)
(* wrote again after that; held = where t is in a held group ("broken" once    *)
(* the other caller wrote inside it); groupSplit = t released a broken group   *)
NoIlv == [mid |-> FALSE, split |-> FALSE, held |-> "out", groupSplit |-> FALSE]

Interleave(t, addr, val, res) ==
  [u \in Threads |->
     IF u = t
     THEN [mid |-> FALSE,
           split |-> ilv[u].split \/ ilv[u].mid,
           held |-> IF addr = IMX662_REGHOLD /\ val = 1 /\ res = 0 THEN "in"
                    ELSE IF addr = IMX662_REGHOLD \/ res # 0 THEN "out"
                    ELSE ilv[u].held,
           groupSplit |-> ilv[u].groupSplit
                          \/ (addr = IMX662_REGHOLD /\ val = 0 /\ ilv[u].held = "broken")]
     ELSE [ilv[u] EXCEPT !.mid = @ \/ (bus[u] # << >> /\ stk[u] # << >>),
                         !.held = IF @ = "in" THEN "broken" ELSE @]]

(* results regmap_write can hand back to caller t: 0, or a transport error *)
WriteResults(t) == {0} \cup (IF failsLeft[t] > 0 THEN TransportErrors ELSE {})

(* the registers of the device the model keeps: VMAX and the exposure (SHR0) *)
TimingRegs == {IMX662_VMAX + i : i \in 0..2} \cup {IMX662_EXPOSURE + i : i \in 0..2}
(* the registers after the reset of a power cycle, before the driver wrote them *)
RegsReset == [a \in TimingRegs |-> 0]

(* imx662_power_off, run when the last power reference is dropped: the reset *)
(* line is asserted and the supplies are cut, the registers lose their values *)
imx662_power_off(u, r) == IF u = 0 THEN RegsReset ELSE r

(* imx662_write_reg: one regmap_write, its result handed back; a write the    *)
(* transport fails does not reach the register                                *)
imx662_write_reg(t, addr, value, res) ==
  /\ bus' = [bus EXCEPT ![t] = Append(@, WriteEv(addr, value % 256, res))]
  /\ regs' = IF res = 0 /\ addr \in TimingRegs
             THEN [regs EXCEPT ![addr] = value % 256] ELSE regs
  /\ ilv' = Interleave(t, addr, value % 256, res)
  /\ failsLeft' = IF res = 0 THEN failsLeft ELSE [failsLeft EXCEPT ![t] = @ - 1]

(* msleep / usleep_range *)
Sleep(t, ms) ==
  bus' = [bus EXCEPT ![t] = Append(@, SleepEv(ms))] /\ UNCHANGED <<regs, ilv, failsLeft>>

(* a put that drops nothing *)
pm_runtime_put_kept(u) == u

(* pm_runtime_put: the usage count never drops below zero *)
pm_runtime_put(u) == IF u > 0 THEN u - 1 ELSE 0

(* std_validate of an integer or boolean control: clamp into the range *)
validate_new(c, v) == Max(c.minimum, Min(c.maximum, v))

(* v4l2_find_nearest_size over imx662_modes: least |dw| + |dh|, first wins *)
SizeError(i, w, h) == Abs(imx662_modes[i].width - w) + Abs(imx662_modes[i].height - h)
v4l2_find_nearest_size(w, h) ==
  CHOOSE i \in 1..IMX662_NUM_MODES :
    /\ \A j \in 1..IMX662_NUM_MODES : SizeError(i, w, h) <= SizeError(j, w, h)
    /\ \A j \in 1..(i - 1) : SizeError(j, w, h) > SizeError(i, w, h)

(* the search ending on the last format when none has the code *)
FormatIndex_last(code) ==
  IF \E i \in 1..IMX662_NUM_FORMATS : cfg.formats[i].code = code
  THEN CHOOSE i \in 1..IMX662_NUM_FORMATS :
         /\ cfg.formats[i].code = code
         /\ \A j \in 1..(i - 1) : cfg.formats[j].code # code
  ELSE IMX662_NUM_FORMATS

(* index of the format with this code, IMX662_NUM_FORMATS + 1 when none *)
FormatIndex(code) ==
  IF \E i \in 1..IMX662_NUM_FORMATS : cfg.formats[i].code = code
  THEN CHOOSE i \in 1..IMX662_NUM_FORMATS :
         /\ cfg.formats[i].code = code
         /\ \A j \in 1..(i - 1) : cfg.formats[j].code # code
  ELSE IMX662_NUM_FORMATS + 1

Ctrl(mn, mx, def) ==
  [cur |-> def, val |-> def, minimum |-> mn, maximum |-> mx,
   default_value |-> def, grabbed |-> FALSE]

(* the driver state a claim compares a call's outcome with *)
Snapshot ==
  [ctrls |-> ctrls, current_format |-> current_format, try_format |-> try_format,
   current_mode |-> current_mode, bpp |-> bpp, usage_count |-> usage_count,
   lastStream |-> lastStream, offline |-> offline, regs |-> regs]
NoGrp == [addr |-> 0, n |-> 0, value |-> 0, from |-> -1]
NoSnap == [ctrls |-> << >>]

----------------------------------------------------------------------------
(* State after imx662_probe                                                *)

ProbeState(conf, concurrent, ops) ==
  LET mode == imx662_modes[1] IN
  /\ cfg = conf
  /\ ctrls =
       [id \in CtrlIds \cup {PixelRate} |->
          CASE id = "gain" -> Ctrl(0, 100, 0)
            [] id = "hblank" -> Ctrl(mode.hmax - mode.width,
                                     IMX662_HMAX_MAX - mode.width,
                                     mode.hmax - mode.width)
            [] id = "vblank" -> Ctrl(mode.vmax - mode.height,
                                     IMX662_VMAX_MAX - mode.height,
                                     mode.vmax - mode.height)
            [] id = "exposure" -> Ctrl(IMX662_EXPOSURE_MIN, mode.vmax - 2, mode.vmax - 2)
            [] id = "hflip" -> Ctrl(0, 1, 0)
            [] id = "vflip" -> Ctrl(0, 1, 0)
            [] id = PixelRate -> Ctrl(1, INT_MAX, imx662_calc_pixel_rate)]
  /\ current_format = [width |-> mode.width, height |-> mode.height,
                       code |-> conf.formats[1].code]
  /\ try_format = [width |-> mode.width, height |-> mode.height,
                   code |-> conf.formats[1].code]
  /\ current_mode = 1
  /\ bpp = conf.formats[1].bpp
  /\ usage_count = 0
  /\ hdl_lock = "none"
  /\ lock = "none"
  /\ bus = [t \in Threads |-> << >>]
  /\ regs = RegsReset
  /\ ilv = [t \in Threads |-> NoIlv]
  /\ grp = [t \in Threads |-> NoGrp]
  /\ failsLeft = [t \in Threads |-> 0]
  /\ stk = [t \in Threads |-> << >>]
  /\ rv = [t \in Threads |-> 0]
  /\ call = [t \in Threads |-> NoCall]
  /\ fmtarg = [t \in Threads |-> NoFmt]
  /\ snap = [t \in Threads |-> NoSnap]
  /\ lastStream = "none"
  /\ offline = {}
  /\ timingOnly = FALSE
  /\ opsLeft = ops
  /\ conc = concurrent

Init == \E conf \in ProbeConfigs : ProbeState(conf, FALSE, MaxOps)
(* the two-lane colour board, its two callers overlapping *)
InitConc ==
  ProbeState([nlanes |-> 2, inck_sel |-> 0, formats |-> imx662_colour_formats], TRUE, MaxOpsConc)

----------------------------------------------------------------------------
(* Requests the callers make                                               *)

Requests(id) ==
  CASE id = "gain" -> {\h22 - 1, \h22}
    [] id = "hblank" -> {imx662_modes[1].hmax - imx662_modes[1].width + k : k \in 1..BlankSpan}
                          \cup {IMX662_HMAX_MAX - imx662_modes[1].width}
    [] id = "vblank" -> {imx662_modes[1].vmax - imx662_modes[1].height + k : k \in 1..BlankSpan}
    [] id = "exposure" -> {1} \cup {imx662_modes[1].vmax - 2 - k : k \in 0..ExposureSpan}
    [] id = "hflip" -> {0, 1}
    [] id = "vflip" -> {0, 1}
    [] id = PixelRate -> {1}

RequestedSizes == {<<1936, 1100>>, <<640, 480>>}
RequestedCodes == {cfg.formats[1].code, cfg.formats[2].code, 0}

MayBegin(t) ==
  /\ call[t].op = "none"
  /\ opsLeft > 0
  /\ conc \/ \A u \in Threads : call[u].op = "none"

BeginCall(t, c, f) ==
  /\ MayBegin(t)
  /\ call' = [call EXCEPT ![t] = c]
  /\ stk' = [stk EXCEPT ![t] = <<f>>]
  /\ snap' = [snap EXCEPT ![t] = Snapshot]
  /\ opsLeft' = opsLeft - 1
  /\ failsLeft' = [failsLeft EXCEPT ![t] = IF conc THEN MaxFailsConc ELSE MaxFails]

(* the video op s_stream *)
Begin_s_stream(t, enable) ==
  /\ t = "s"
  /\ BeginCall(t, [op |-> "s_stream", a |-> enable, b |-> 0],
               Frame("imx662_set_stream", "entry", enable, 0, 0, 0))
  /\ UNCHANGED <<cfg, ctrls, drvVars, usage_count, hdl_lock, lock, bus, regs, ilv, grp, rv, fmtarg,
                 lastStream, offline, timingOnly, conc>>

(* VIDIOC_S_CTRL on one of the six controls *)
Begin_s_ctrl(t, id, value) ==
  /\ t = "c"
  /\ BeginCall(t, [op |-> "s_ctrl", a |-> id, b |-> value],
               Frame("v4l2_s_ctrl", "lock", id, value, 0, 0))
  /\ UNCHANGED <<cfg, ctrls, drvVars, usage_count, hdl_lock, lock, bus, regs, ilv, grp, rv, fmtarg,
                 lastStream, offline, timingOnly, conc>>

(* the pad op set_fmt *)
Begin_set_fmt(t, which, size, code) ==
  /\ t = "c"
  /\ BeginCall(t, [op |-> "set_fmt", a |-> which, b |-> code, size |-> size],
               Frame("imx662_set_fmt", "lock", 0, 0, 0, 0))
  /\ fmtarg' = [fmtarg EXCEPT ![t] = [which |-> which, width |-> size[1],
                                      height |-> size[2], code |-> code]]
  /\ UNCHANGED <<cfg, ctrls, drvVars, usage_count, hdl_lock, lock, bus, regs, ilv, grp, rv,
                 lastStream, offline, timingOnly, conc>>

(* the pad op get_fmt *)
Begin_get_fmt(t, which) ==
  /\ t = "c"
  /\ BeginCall(t, [op |-> "get_fmt", a |-> which, b |-> 0],
               Frame("imx662_get_fmt", "lock", 0, 0, 0, 0))
  /\ fmtarg' = [fmtarg EXCEPT ![t] = [NoFmt EXCEPT !.which = which]]
  /\ UNCHANGED <<cfg, ctrls, drvVars, usage_count, hdl_lock, lock, bus, regs, ilv, grp, rv,
                 lastStream, offline, timingOnly, conc>>

Done(t) == call[t].op # "none" /\ stk[t] = << >>

(* the caller takes the result of its call; the call's trace is dropped *)
Complete(t) ==
  /\ Done(t)
  /\ call' = [call EXCEPT ![t] = NoCall]
  /\ rv' = [rv EXCEPT ![t] = 0]
  /\ fmtarg' = [fmtarg EXCEPT ![t] = NoFmt]
  /\ snap' = [snap EXCEPT ![t] = NoSnap]
  /\ bus' = [bus EXCEPT ![t] = << >>]
  /\ ilv' = [ilv EXCEPT ![t] = NoIlv]
  /\ grp' = [grp EXCEPT ![t] = NoGrp]
  /\ failsLeft' = [failsLeft EXCEPT ![t] = 0]
  /\ lastStream' = IF call[t].op # "s_stream" THEN lastStream
                   ELSE IF call[t].a = 0 THEN "stop"
                   ELSE IF rv[t] = 0 THEN "start_ok" ELSE "start_fail"
  /\ offline' = IF call[t].op = "s_ctrl" /\ rv[t] = 0
                THEN IF /\ snap[t].usage_count = 0
                        /\ ctrls[call[t].a].cur # snap[t].ctrls[call[t].a].cur
                     THEN offline \cup {call[t].a}
                     ELSE offline
                ELSE IF call[t].op = "s_stream" /\ call[t].a # 0 /\ rv[t] = 0 THEN {}
                ELSE offline
  /\ timingOnly' = IF call[t].op = "s_stream" THEN call[t].a # 0 /\ rv[t] = 0
                   ELSE /\ timingOnly
                        /\ call[t].op = "s_ctrl" /\ call[t].a \in {"vblank", "exposure"}
                        /\ rv[t] = 0 /\ snap[t].usage_count > 0
  /\ UNCHANGED <<cfg, ctrls, drvVars, usage_count, hdl_lock, lock, regs, stk, opsLeft, conc>>

----------------------------------------------------------------------------
(* Register access                                                         *)

envVars == <<cfg, call, snap, lastStream, offline, timingOnly, opsLeft, conc>>

(* the two tables taken for one another *)
Settings_swapped(name) ==
  IF name = "imx662_global_settings" THEN Mode.mode_data ELSE imx662_global_settings

(* the table a set_register_array frame names *)
Settings(name) ==
  IF name = "imx662_global_settings" THEN imx662_global_settings ELSE Mode.mode_data

(* imx662_set_register_array: frame a = the table, d = entries written *)
imx662_set_register_array(t) ==
  /\ In(t, "imx662_set_register_array")
  /\ LET f == Top(t)
         settings == Settings(f.a)
     IN IF f.d < Len(settings)
        THEN \E res \in WriteResults(t) :
               /\ imx662_write_reg(t, settings[f.d + 1][1], settings[f.d + 1][2], res)
               /\ IF res < 0 THEN Return(t, res)
                  ELSE GotoWith(t, [f EXCEPT !.d = f.d + 1])
        ELSE /\ Sleep(t, 10)
             /\ Return(t, 0)
  /\ UNCHANGED <<envVars, grp, fmtarg, ctrls, drvVars, usage_count, hdl_lock, lock>>

(* a shift by i bits, not by i bytes *)
ByteOf_bits(value, i) == (value \div (2 ^ i)) % 256

(* (u8)(value >> (i * 8)) *)
ByteOf(value, i) == (value \div (256 ^ i)) % 256

(* imx662_write_buffered_reg: frame a = address_low, b = nr_regs, c = value, d = i *)
imx662_write_buffered_reg(t) ==
  /\ In(t, "imx662_write_buffered_reg")
  /\ LET f == Top(t) IN
     \E res \in WriteResults(t) :
       \/ /\ f.pc = "hold"
          /\ imx662_write_reg(t, IMX662_REGHOLD, 1, res)
          /\ grp' = [grp EXCEPT ![t] = [addr |-> f.a, n |-> f.b, value |-> f.c,
                                        from |-> Len(bus[t])]]
          /\ IF res # 0 THEN Return(t, res)
             ELSE Goto(t, IF f.b > 0 THEN "value" ELSE "release")
       \/ /\ f.pc = "value"
          /\ imx662_write_reg(t, f.a + f.d, ByteOf(f.c, f.d), res)
          /\ UNCHANGED grp
          /\ IF res # 0 THEN Return(t, res)
             ELSE GotoWith(t, [f EXCEPT !.d = f.d + 1,
                                        !.pc = IF f.d + 1 < f.b THEN "value" ELSE "release"])
       \/ /\ f.pc = "release"
          /\ imx662_write_reg(t, IMX662_REGHOLD, 0, res)
          /\ UNCHANGED grp
          /\ Return(t, res)
  /\ UNCHANGED <<envVars, fmtarg, ctrls, drvVars, usage_count, hdl_lock, lock>>

BufferedWrite(addr, nr_regs, value) ==
  Frame("imx662_write_buffered_reg", "hold", addr, nr_regs, value, 0)

----------------------------------------------------------------------------
(* Control encoders                                                        *)

(* the high-gain code selected from the threshold on *)
GainSelect_threshold(value) ==
  IF value < \h22 THEN IMX662_FDG_SEL0_LCG ELSE IMX662_FDG_SEL0_HCG

(* the conversion-gain code written with a gain value *)
GainSelect(value) == IF value < \h22 THEN IMX662_FDG_SEL0_LCG ELSE IMX662_FDG_SEL0_LCG

(* imx662_set_gain: frame a = value *)
imx662_set_gain(t) ==
  /\ In(t, "imx662_set_gain")
  /\ LET f == Top(t) IN
       \/ /\ f.pc = "buf"
          /\ CallFn(t, At(f, "fdg"), BufferedWrite(IMX662_GAIN, 2, f.a))
          /\ UNCHANGED <<bus, regs, ilv, failsLeft>>
       \/ /\ f.pc = "fdg"
          /\ \E res \in WriteResults(t) :
               /\ imx662_write_reg(t, IMX662_FR_FDG_SEL0, GainSelect(f.a), res)
               /\ Return(t, res)
  /\ UNCHANGED <<envVars, grp, fmtarg, ctrls, drvVars, usage_count, hdl_lock, lock>>

(* the exposure value written as it is *)
ExposureReg_direct(value) == value % (2 ^ 24)

(* the value imx662_set_exposure writes to the exposure register: a u32, of *)
(* which the three bytes written are the low 24 bits                        *)
ExposureReg(value) == ((Mode.height + ctrls["vblank"].val) - value - 1) % (2 ^ 24)

(* imx662_set_exposure: frame a = value *)
imx662_set_exposure(t) ==
  /\ In(t, "imx662_set_exposure")
  /\ LET f == Top(t) IN
       /\ f.pc = "buf"
       /\ CallFn(t, At(f, "ret"), BufferedWrite(IMX662_EXPOSURE, 3, ExposureReg(f.a)))
  /\ UNCHANGED <<envVars, grp, fmtarg, ctrls, drvVars, usage_count, hdl_lock, lock, bus, regs, ilv, failsLeft>>

(* the sum written without the shift *)
HmaxReg_sum(val) == val + Mode.width

(* the value imx662_set_hmax writes to the HMAX register *)
HmaxReg(val) == (val + Mode.width) \div 2

(* imx662_set_hmax: frame a = val *)
imx662_set_hmax(t) ==
  /\ In(t, "imx662_set_hmax")
  /\ LET f == Top(t) IN
       /\ f.pc = "buf"
       /\ CallFn(t, At(f, "ret"), BufferedWrite(IMX662_HMAX, 2, HmaxReg(f.a)))
  /\ UNCHANGED <<envVars, grp, fmtarg, ctrls, drvVars, usage_count, hdl_lock, lock, bus, regs, ilv, failsLeft>>

(* the value imx662_set_vmax writes to the VMAX register *)
VmaxReg(val) == val + Mode.height

(* imx662_set_vmax: frame a = val, c = ret of the VMAX write *)
imx662_set_vmax(t) ==
  /\ In(t, "imx662_set_vmax")
  /\ LET f == Top(t)
         vmax == VmaxReg(f.a)
     IN
       \/ /\ f.pc = "buf"
          /\ CallFn(t, At(f, "range"), BufferedWrite(IMX662_VMAX, 3, vmax))
       \/ /\ f.pc = "range"
          /\ CallFn(t, [f EXCEPT !.pc = "exposure", !.c = rv[t]],
                    Frame("v4l2_ctrl_modify_range", "entry", "exposure",
                          IMX662_EXPOSURE_MIN, vmax - IMX662_EXPOSURE_OFFSET,
                          vmax - IMX662_EXPOSURE_OFFSET))
       \/ /\ f.pc = "exposure"
          /\ CallFn(t, At(f, "ret"),
                    Frame("imx662_set_exposure", "buf", ctrls["exposure"].val, 0, 0, 0))
       \/ /\ f.pc = "ret"
          /\ Return(t, f.c)
  /\ UNCHANGED <<envVars, grp, fmtarg, ctrls, drvVars, usage_count, hdl_lock, lock, bus, regs, ilv, failsLeft>>

(* the function imx662_set_ctrl dispatches a control id to *)
Encoder(id) ==
  CASE id = "gain" -> "imx662_set_gain"
    [] id = "exposure" -> "imx662_set_exposure"
    [] id = "hblank" -> "imx662_set_hmax"
    [] id = "vblank" -> "imx662_set_vmax"

FlipReg(id) == IF id = "hflip" THEN IMX662_FLIP_WINMODEH ELSE IMX662_FLIP_WINMODEV

(* imx662_set_ctrl, the s_ctrl op: frame a = control id *)
imx662_set_ctrl(t) ==
  /\ In(t, "imx662_set_ctrl")
  /\ LET f == Top(t) IN
       \/ /\ f.pc = "entry"
          /\ IF usage_count = 0
             THEN /\ Return(t, 0)
                  /\ UNCHANGED <<bus, regs, ilv, failsLeft, usage_count>>
             ELSE /\ usage_count' = usage_count + 1
                  /\ IF f.a \in {"hflip", "vflip"}
                     THEN \E res \in WriteResults(t) :
                            /\ imx662_write_reg(t, FlipReg(f.a), ctrls[f.a].val, res)
                            /\ stk' = [stk EXCEPT ![t] = <<At(f, "put")>> \o Tail(@)]
                            /\ rv' = [rv EXCEPT ![t] = res]
                     ELSE IF f.a \notin CtrlIds
                     THEN /\ stk' = [stk EXCEPT ![t] = <<At(f, "put")>> \o Tail(@)]
                          /\ rv' = [rv EXCEPT ![t] = -EINVAL]
                          /\ UNCHANGED <<bus, regs, ilv, failsLeft>>
                     ELSE /\ CallFn(t, At(f, "put"),
                                    Frame(Encoder(f.a), "buf", ctrls[f.a].val, 0, 0, 0))
                          /\ UNCHANGED <<bus, regs, ilv, failsLeft>>
       \/ /\ f.pc = "put"
          /\ usage_count' = pm_runtime_put(usage_count)
          /\ regs' = imx662_power_off(usage_count', regs)
          /\ Return(t, rv[t])
          /\ UNCHANGED <<bus, ilv, failsLeft>>
  /\ UNCHANGED <<envVars, grp, fmtarg, ctrls, drvVars, hdl_lock, lock>>

----------------------------------------------------------------------------
(* The control framework, as the driver calls it                           *)

ERANGE == 34

(* set_ctrl and try_or_set_cluster of the framework: frame a = control id   *)
(* validate the new value, refuse a grabbed control, skip an unchanged one, *)
(* call the s_ctrl op and make the new value current when it succeeds       *)
v4l2_set_ctrl(t) ==
  /\ In(t, "v4l2_set_ctrl")
  /\ LET f == Top(t)
         c == ctrls[f.a]
         v == validate_new(c, c.val)
     IN
       \/ /\ f.pc = "entry"
          /\ ctrls' = [ctrls EXCEPT ![f.a].val = v]
          /\ IF c.grabbed THEN Return(t, -EBUSY)
             ELSE IF v = c.cur THEN Return(t, 0)
             ELSE CallFn(t, At(f, "done"), Frame("imx662_set_ctrl", "entry", f.a, 0, 0, 0))
       \/ /\ f.pc = "done"
          /\ IF rv[t] # 0
             THEN Return(t, rv[t]) /\ UNCHANGED ctrls
             ELSE /\ ctrls' = [ctrls EXCEPT ![f.a].cur = c.val]
                  /\ Return(t, 0)
  /\ UNCHANGED <<envVars, grp, fmtarg, drvVars, usage_count, hdl_lock, lock, bus, regs, ilv, failsLeft>>

(* __v4l2_ctrl_modify_range: frame a = control id, b = min, c = max, d = def *)
v4l2_ctrl_modify_range(t) ==
  /\ In(t, "v4l2_ctrl_modify_range")
  /\ LET f == Top(t)
         ranged == [ctrls[f.a] EXCEPT !.minimum = f.b, !.maximum = f.c,
                                      !.default_value = f.d]
         v == validate_new(ranged, ranged.cur)
     IN
       /\ f.pc = "entry"
       /\ IF f.b > f.c \/ f.d < f.b \/ f.d > f.c
             THEN Return(t, -ERANGE) /\ UNCHANGED ctrls
             ELSE /\ ctrls' = [ctrls EXCEPT ![f.a] = [ranged EXCEPT !.val = v]]
                  /\ IF v # ranged.cur
                     THEN CallFn(t, At(f, "ret"),
                                 Frame("v4l2_set_ctrl", "entry", f.a, 0, 0, 0))
                     ELSE Return(t, 0)
  /\ UNCHANGED <<envVars, grp, fmtarg, drvVars, usage_count, hdl_lock, lock, bus, regs, ilv, failsLeft>>

(* v4l2_ctrl_handler_setup: frame d = index into the handler's controls *)
v4l2_ctrl_handler_setup(t) ==
  /\ In(t, "v4l2_ctrl_handler_setup")
  /\ LET f == Top(t) IN
       \/ /\ f.pc = "lock"
          /\ hdl_lock = "none"
          /\ hdl_lock' = t
          /\ GotoWith(t, [f EXCEPT !.pc = "next", !.d = 1])
          /\ UNCHANGED ctrls
       \/ /\ f.pc = "next"
          /\ IF f.d > Len(CtrlOrder)
             THEN /\ hdl_lock' = "none"
                  /\ Return(t, 0)
                  /\ UNCHANGED ctrls
             ELSE /\ ctrls' = [ctrls EXCEPT ![CtrlOrder[f.d]].val = ctrls[CtrlOrder[f.d]].cur]
                  /\ CallFn(t, At(f, "check"),
                            Frame("imx662_set_ctrl", "entry", CtrlOrder[f.d], 0, 0, 0))
                  /\ UNCHANGED hdl_lock
       \/ /\ f.pc = "check"
          /\ IF rv[t] # 0
             THEN /\ hdl_lock' = "none"
                  /\ Return(t, rv[t])
             ELSE /\ GotoWith(t, [f EXCEPT !.pc = "next", !.d = f.d + 1])
                  /\ UNCHANGED hdl_lock
          /\ UNCHANGED ctrls
  /\ UNCHANGED <<envVars, grp, fmtarg, drvVars, usage_count, lock, bus, regs, ilv, failsLeft>>

(* v4l2_s_ctrl, the caller's way to imx662_set_ctrl: frame a = id, b = value *)
v4l2_s_ctrl(t) ==
  /\ In(t, "v4l2_s_ctrl")
  /\ LET f == Top(t) IN
       \/ /\ f.pc = "lock"
          /\ f.a = PixelRate
          /\ Return(t, -EINVAL)
          /\ UNCHANGED <<hdl_lock, ctrls>>
       \/ /\ f.pc = "lock"
          /\ f.a # PixelRate
          /\ hdl_lock = "none"
          /\ hdl_lock' = t
          /\ ctrls' = [ctrls EXCEPT ![f.a].val = f.b]
          /\ CallFn(t, At(f, "unlock"), Frame("v4l2_set_ctrl", "entry", f.a, 0, 0, 0))
       \/ /\ f.pc = "unlock"
          /\ hdl_lock' = "none"
          /\ Return(t, rv[t])
          /\ UNCHANGED ctrls
  /\ UNCHANGED <<envVars, grp, fmtarg, drvVars, usage_count, lock, bus, regs, ilv, failsLeft>>

(* only one of the two flips grabbed *)
GrabFlips_vflip_only(grabbed) == [ctrls EXCEPT !["vflip"].grabbed = grabbed]

(* __v4l2_ctrl_grab on both flip controls *)
GrabFlips(grabbed) ==
  [ctrls EXCEPT !["vflip"].grabbed = grabbed, !["hflip"].grabbed = grabbed]

----------------------------------------------------------------------------
(* Streaming                                                               *)

(* imx662_stop_streaming with the msleep left out *)
imx662_stop_streaming_nosleep(t) ==
  /\ In(t, "imx662_stop_streaming")
  /\ LET f == Top(t) IN
       \/ /\ f.pc = "standby"
          /\ \E res \in WriteResults(t) :
               /\ imx662_write_reg(t, IMX662_STANDBY, \h01, res)
               /\ IF res < 0 THEN Return(t, res) ELSE Goto(t, "xmsta")
       \/ /\ f.pc = "xmsta"
          /\ \E res \in WriteResults(t) :
               /\ imx662_write_reg(t, IMX662_XMSTA, \h01, res)
               /\ Return(t, res)
  /\ UNCHANGED <<envVars, grp, fmtarg, ctrls, drvVars, usage_count, hdl_lock, lock>>

(* imx662_stop_streaming *)
imx662_stop_streaming(t) ==
  /\ In(t, "imx662_stop_streaming")
  /\ LET f == Top(t) IN
       \/ /\ f.pc = "standby"
          /\ \E res \in WriteResults(t) :
               /\ imx662_write_reg(t, IMX662_STANDBY, \h01, res)
               /\ IF res < 0 THEN Return(t, res) ELSE Goto(t, "sleep")
       \/ /\ f.pc = "sleep"
          /\ Sleep(t, 30)
          /\ Goto(t, "xmsta")
       \/ /\ f.pc = "xmsta"
          /\ \E res \in WriteResults(t) :
               /\ imx662_write_reg(t, IMX662_XMSTA, \h01, res)
               /\ Return(t, res)
  /\ UNCHANGED <<envVars, grp, fmtarg, ctrls, drvVars, usage_count, hdl_lock, lock>>

(* the two codes taken for one another *)
AdMdBit_swapped(code) ==
  IF code \in {MEDIA_BUS_FMT_SRGGB10_1X10, MEDIA_BUS_FMT_Y10_1X10} THEN \h01
  ELSE IF code \in {MEDIA_BUS_FMT_SRGGB12_1X12, MEDIA_BUS_FMT_Y12_1X12} THEN \h00
  ELSE -1

(* the ADBIT / MDBIT code of a media bus code, -1 when the switch has no case *)
AdMdBit(code) ==
  IF code \in {MEDIA_BUS_FMT_SRGGB10_1X10, MEDIA_BUS_FMT_Y10_1X10} THEN \h00
  ELSE IF code \in {MEDIA_BUS_FMT_SRGGB12_1X12, MEDIA_BUS_FMT_Y12_1X12} THEN \h01
  ELSE -1

(* imx662_write_current_format: frame c = ad_md_bit *)
imx662_write_current_format(t) ==
  /\ In(t, "imx662_write_current_format")
  /\ LET f == Top(t)
         ad_md_bit == AdMdBit(current_format.code)
     IN
       \/ /\ f.pc = "adbit"
          /\ IF ad_md_bit < 0
             THEN Return(t, -EINVAL) /\ UNCHANGED <<bus, regs, ilv, failsLeft>>
             ELSE \E res \in WriteResults(t) :
                    /\ imx662_write_reg(t, IMX662_ADBIT, ad_md_bit, res)
                    /\ IF res < 0 THEN Return(t, res)
                       ELSE GotoWith(t, [f EXCEPT !.pc = "mdbit", !.c = ad_md_bit])
       \/ /\ f.pc = "mdbit"
          /\ \E res \in WriteResults(t) :
               /\ imx662_write_reg(t, IMX662_MDBIT, f.c, res)
               /\ Return(t, IF res < 0 THEN res ELSE 0)
  /\ UNCHANGED <<envVars, grp, fmtarg, ctrls, drvVars, usage_count, hdl_lock, lock>>

LaneMode == IF cfg.nlanes = 2 THEN \h01 ELSE \h03
LaneRate == IF cfg.nlanes = 2 THEN IMX662_LANE_RATE_1188 ELSE IMX662_LANE_RATE_594

(* imx662_start_streaming *)
imx662_start_streaming(t) ==
  /\ In(t, "imx662_start_streaming")
  /\ LET f == Top(t) IN
       \/ /\ f.pc = "global"
          /\ CallFn(t, At(f, "inck"),
                    Frame("imx662_set_register_array", "loop", "imx662_global_settings", 0, 0, 0))
          /\ UNCHANGED <<bus, regs, ilv, failsLeft>>
       \/ /\ f.pc = "inck"
          /\ \E res \in WriteResults(t) :
               /\ imx662_write_reg(t, IMX662_INCK_SEL, cfg.inck_sel, res)
               /\ IF res < 0 THEN Return(t, res) ELSE Goto(t, "format")
       \/ /\ f.pc = "format"
          /\ CallFn(t, At(f, "mode"), Frame("imx662_write_current_format", "adbit", 0, 0, 0, 0))
          /\ UNCHANGED <<bus, regs, ilv, failsLeft>>
       \/ /\ f.pc = "mode"
          /\ CallFn(t, At(f, "lane_mode"),
                    Frame("imx662_set_register_array", "loop", "mode_data", 0, 0, 0))
          /\ UNCHANGED <<bus, regs, ilv, failsLeft>>
       \/ /\ f.pc = "lane_mode"
          /\ \E res \in WriteResults(t) :
               /\ imx662_write_reg(t, IMX662_CSI_LANE_MODE, LaneMode, res)
               /\ IF res < 0 THEN Return(t, res) ELSE Goto(t, "lane_rate")
       \/ /\ f.pc = "lane_rate"
          /\ \E res \in WriteResults(t) :
               /\ imx662_write_reg(t, IMX662_LANE_RATE, LaneRate, res)
               /\ IF res < 0 THEN Return(t, res) ELSE Goto(t, "controls")
       \/ /\ f.pc = "controls"
          /\ CallFn(t, At(f, "standby"), Frame("v4l2_ctrl_handler_setup", "lock", 0, 0, 0, 0))
          /\ UNCHANGED <<bus, regs, ilv, failsLeft>>
       \/ /\ f.pc = "standby"
          /\ \E res \in WriteResults(t) :
               /\ imx662_write_reg(t, IMX662_STANDBY, \h00, res)
               /\ IF res < 0 THEN Return(t, res) ELSE Goto(t, "sleep")
       \/ /\ f.pc = "sleep"
          /\ Sleep(t, 30)
          /\ Goto(t, "xmsta")
       \/ /\ f.pc = "xmsta"
          /\ \E res \in WriteResults(t) :
               /\ imx662_write_reg(t, IMX662_XMSTA, \h00, res)
               /\ Return(t, res)
  /\ UNCHANGED <<envVars, grp, fmtarg, ctrls, drvVars, usage_count, hdl_lock, lock>>

(* results of pm_runtime_resume_and_get: 0, or the error of a failed power-on *)
ResumeResults == {0, -EIO}

(* imx662_set_stream: frame a = enable *)
imx662_set_stream(t) ==
  /\ In(t, "imx662_set_stream")
  /\ LET f == Top(t) IN
       \/ /\ f.pc = "entry"
          /\ f.a # 0
          /\ \E ret \in ResumeResults :
               IF ret < 0
               THEN Return(t, ret) /\ UNCHANGED usage_count
               ELSE /\ usage_count' = usage_count + 1
                    /\ CallFn(t, At(f, "started"),
                              Frame("imx662_start_streaming", "global", 0, 0, 0, 0))
          /\ UNCHANGED <<ctrls, regs>>
       \/ /\ f.pc = "entry"
          /\ f.a = 0
          /\ CallFn(t, At(f, "stopped"), Frame("imx662_stop_streaming", "standby", 0, 0, 0, 0))
          /\ UNCHANGED <<ctrls, usage_count, regs>>
       \/ /\ f.pc = "started"
          /\ IF rv[t] # 0
             THEN /\ usage_count' = pm_runtime_put(usage_count)
                  /\ regs' = imx662_power_off(usage_count', regs)
                  /\ Return(t, rv[t])
                  /\ UNCHANGED ctrls
             ELSE /\ ctrls' = GrabFlips(TRUE)
                  /\ Return(t, rv[t])
                  /\ UNCHANGED <<usage_count, regs>>
       \/ /\ f.pc = "stopped"
          /\ usage_count' = pm_runtime_put(usage_count)
          /\ regs' = imx662_power_off(usage_count', regs)
          /\ ctrls' = GrabFlips(FALSE)
          /\ Return(t, 0)
  /\ UNCHANGED <<envVars, grp, fmtarg, drvVars, hdl_lock, lock, bus, ilv, failsLeft>>

----------------------------------------------------------------------------
(* Formats                                                                 *)

(* every format taken for the active one *)
ToTry_never(which) == FALSE

(* whether imx662_set_fmt stores into the pad's try format *)
ToTry(which) == which = V4L2_SUBDEV_FORMAT_TRY

(* imx662_set_fmt on fmtarg[t] *)
imx662_set_fmt(t) ==
  /\ In(t, "imx662_set_fmt")
  /\ LET f == Top(t)
         fmt == fmtarg[t]
         m == v4l2_find_nearest_size(fmt.width, fmt.height)
         mode == imx662_modes[m]
         found == FormatIndex(fmt.code)
         i == IF found > IMX662_NUM_FORMATS THEN 1 ELSE found
         adjusted == [fmt EXCEPT !.width = mode.width, !.height = mode.height,
                                 !.code = cfg.formats[i].code]
     IN
       \/ /\ f.pc = "lock"
          /\ lock = "none"
          /\ ToTry(fmt.which)
          /\ fmtarg' = [fmtarg EXCEPT ![t] = adjusted]
          /\ try_format' = [width |-> adjusted.width, height |-> adjusted.height,
                            code |-> adjusted.code]
          /\ Return(t, 0)
          /\ UNCHANGED <<ctrls, current_format, current_mode, bpp, lock>>
       \/ /\ f.pc = "lock"
          /\ lock = "none"
          /\ ~ToTry(fmt.which)
          /\ lock' = t
          /\ fmtarg' = [fmtarg EXCEPT ![t] = adjusted]
          /\ current_mode' = m
          /\ bpp' = cfg.formats[i].bpp
          /\ ctrls' = [ctrls EXCEPT ![PixelRate].val = imx662_calc_pixel_rate]
          /\ CallFn(t, At(f, "hblank_range"),
                    Frame("v4l2_set_ctrl", "entry", PixelRate, 0, 0, 0))
          /\ UNCHANGED <<current_format, try_format>>
       \/ /\ f.pc = "hblank_range"
          /\ CallFn(t, At(f, "hblank"),
                    Frame("v4l2_ctrl_modify_range", "entry", "hblank",
                          Mode.hmax - Mode.width, IMX662_HMAX_MAX - Mode.width,
                          Mode.hmax - Mode.width))
          /\ UNCHANGED <<ctrls, drvVars, fmtarg, lock>>
       \/ /\ f.pc = "hblank"
          /\ ctrls' = [ctrls EXCEPT !["hblank"].val = Mode.hmax - Mode.width]
          /\ CallFn(t, At(f, "vblank_range"), Frame("v4l2_set_ctrl", "entry", "hblank", 0, 0, 0))
          /\ UNCHANGED <<drvVars, fmtarg, lock>>
       \/ /\ f.pc = "vblank_range"
          /\ CallFn(t, At(f, "vblank"),
                    Frame("v4l2_ctrl_modify_range", "entry", "vblank",
                          Mode.vmax - Mode.height, IMX662_VMAX_MAX - Mode.height,
                          Mode.vmax - Mode.height))
          /\ UNCHANGED <<ctrls, drvVars, fmtarg, lock>>
       \/ /\ f.pc = "vblank"
          /\ ctrls' = [ctrls EXCEPT !["vblank"].val = Mode.vmax - Mode.height]
          /\ CallFn(t, At(f, "exposure_range"), Frame("v4l2_set_ctrl", "entry", "vblank", 0, 0, 0))
          /\ UNCHANGED <<drvVars, fmtarg, lock>>
       \/ /\ f.pc = "exposure_range"
          /\ CallFn(t, At(f, "store"),
                    Frame("v4l2_ctrl_modify_range", "entry", "exposure",
                          IMX662_EXPOSURE_MIN, Mode.vmax - 2, Mode.vmax - 2))
          /\ UNCHANGED <<ctrls, drvVars, fmtarg, lock>>
       \/ /\ f.pc = "store"
          /\ current_format' = [width |-> fmt.width, height |-> fmt.height, code |-> fmt.code]
          /\ lock' = "none"
          /\ Return(t, 0)
          /\ UNCHANGED <<ctrls, try_format, current_mode, bpp, fmtarg>>
  /\ UNCHANGED <<envVars, grp, usage_count, hdl_lock, bus, regs, ilv, failsLeft>>

(* imx662_get_fmt handing back the try format whatever fmt->which is *)
imx662_get_fmt_try(t) ==
  /\ In(t, "imx662_get_fmt")
  /\ lock = "none"
  /\ fmtarg' = [fmtarg EXCEPT ![t] = [which |-> @.which, width |-> try_format.width,
                                      height |-> try_format.height,
                                      code |-> try_format.code]]
  /\ Return(t, 0)
  /\ UNCHANGED <<envVars, grp, ctrls, drvVars, usage_count, hdl_lock, lock, bus, regs, ilv, failsLeft>>

(* imx662_get_fmt into fmtarg[t] *)
imx662_get_fmt(t) ==
  /\ In(t, "imx662_get_fmt")
  /\ lock = "none"
  /\ LET framefmt == IF fmtarg[t].which = V4L2_SUBDEV_FORMAT_TRY
                     THEN try_format ELSE current_format
     IN fmtarg' = [fmtarg EXCEPT ![t] = [which |-> @.which, width |-> framefmt.width,
                                         height |-> framefmt.height, code |-> framefmt.code]]
  /\ Return(t, 0)
  /\ UNCHANGED <<envVars, grp, ctrls, drvVars, usage_count, hdl_lock, lock, bus, regs, ilv, failsLeft>>

----------------------------------------------------------------------------
(* Specifications                                                          *)

Next ==
  \E t \in Threads :
    \/ \E enable \in {0, 1} : Begin_s_stream(t, enable)
    \/ \E id \in CtrlIds \cup {PixelRate} : \E value \in Requests(id) :
         Begin_s_ctrl(t, id, value)
    \/ \E which \in {V4L2_SUBDEV_FORMAT_TRY, V4L2_SUBDEV_FORMAT_ACTIVE} :
         \E size \in RequestedSizes : \E code \in RequestedCodes :
           Begin_set_fmt(t, which, size, code)
    \/ \E which \in {V4L2_SUBDEV_FORMAT_TRY, V4L2_SUBDEV_FORMAT_ACTIVE} : Begin_get_fmt(t, which)
    \/ Complete(t)
    \/ imx662_set_stream(t)
    \/ imx662_start_streaming(t)
    \/ imx662_stop_streaming(t)
    \/ imx662_set_register_array(t)
    \/ imx662_write_current_format(t)
    \/ v4l2_ctrl_handler_setup(t)
    \/ v4l2_s_ctrl(t)
    \/ v4l2_set_ctrl(t)
    \/ v4l2_ctrl_modify_range(t)
    \/ imx662_set_ctrl(t)
    \/ imx662_set_gain(t)
    \/ imx662_set_exposure(t)
    \/ imx662_set_hmax(t)
    \/ imx662_set_vmax(t)
    \/ imx662_write_buffered_reg(t)
    \/ imx662_set_fmt(t)
    \/ imx662_get_fmt(t)

(* one caller at a time *)
Spec == Init /\ [][Next]_vars

(* the stream caller and the control caller overlap *)
SpecConc == InitConc /\ [][Next]_vars

TypeOK ==
  /\ usage_count \in Nat
  /\ hdl_lock \in Threads \cup {"none"}
  /\ lock \in Threads \cup {"none"}
  /\ \A id \in CtrlIds : ctrls[id].minimum <= ctrls[id].maximum

----------------------------------------------------------------------------
(* Properties of the traces of calls                                       *)

IsWrite(e) == e.k = "w"
WritesOf(t) == SelectSeq(bus[t], IsWrite)
AllOk(t) == \A i \in 1..Len(bus[t]) : bus[t][i].res = 0
FirstFail(t) ==
  CHOOSE i \in 1..Len(bus[t]) :
    bus[t][i].res # 0 /\ \A j \in 1..(i - 1) : bus[t][j].res = 0
StreamDone == Done("s") /\ call["s"].op = "s_stream"
StartDone == StreamDone /\ call["s"].a # 0
StopDone == StreamDone /\ call["s"].a = 0
CtrlDone(ids) == Done("c") /\ call["c"].op = "s_ctrl" /\ call["c"].a \in ids
Flips == {"hflip", "vflip"}
FlipsGrabbed(cs) == {id \in Flips : cs[id].grabbed}

AddrsOf(table) == [i \in 1..Len(table) |-> table[i][1]]
(* the registers start_stream writes before the controls, in order *)
StartHead ==
  AddrsOf(imx662_global_settings) \o <<IMX662_INCK_SEL, IMX662_ADBIT, IMX662_MDBIT>>
    \o AddrsOf(imx662_1080p_common_settings) \o <<IMX662_CSI_LANE_MODE, IMX662_LANE_RATE>>
(* the first register of each of the six controls *)
ControlFirst ==
  {IMX662_GAIN, IMX662_EXPOSURE, IMX662_HMAX, IMX662_VMAX,
   IMX662_FLIP_WINMODEH, IMX662_FLIP_WINMODEV}
(* every register the control encoders write *)
ControlRegs ==
  {IMX662_REGHOLD, IMX662_FR_FDG_SEL0, IMX662_FLIP_WINMODEH, IMX662_FLIP_WINMODEV}
    \cup {IMX662_GAIN + i : i \in 0..1} \cup {IMX662_HMAX + i : i \in 0..1}
    \cup {IMX662_VMAX + i : i \in 0..2} \cup {IMX662_EXPOSURE + i : i \in 0..2}

(* C1: when every write of start_stream succeeds, the writes are, in order:  *)
(* the global table, INCK_SEL, ADBIT, MDBIT, the mode table, the lane mode,  *)
(* the lane rate, then writes of the six controls only (each control         *)
(* written), then STANDBY = 0, the 30 ms delay, and XMSTA = 0 as the last.   *)
C1_StartOrder ==
  (StartDone /\ bus["s"] # << >> /\ AllOk("s")) =>
    LET w == WritesOf("s")
        n == Len(StartHead)
        m == Len(w)
        l == Len(bus["s"])
    IN /\ m >= n + 2
       /\ \A i \in 1..n : w[i].addr = StartHead[i]
       /\ \A i \in (n + 1)..(m - 2) : w[i].addr \in ControlRegs
       /\ \A r \in ControlFirst : \E i \in (n + 1)..(m - 2) : w[i].addr = r
       /\ w[m - 1] = WriteEv(IMX662_STANDBY, 0, 0)
       /\ bus["s"][l - 1] = SleepEv(30)
       /\ w[m] = WriteEv(IMX662_XMSTA, 0, 0)
       /\ bus["s"][l] = w[m]

C1_Witness == StartDone /\ bus["s"] # << >> /\ AllOk("s") /\ rv["s"] = 0

(* C2: when the k-th write of start_stream fails, start_stream returns that  *)
(* error, nothing is written after the k-th write, and the flips stay        *)
(* unlocked.                                                                 *)
C2_FailStopsStart ==
  (StartDone /\ ~AllOk("s") /\ FlipsGrabbed(snap["s"].ctrls) = {}) =>
    LET k == FirstFail("s") IN
      /\ rv["s"] = bus["s"][k].res
      /\ Len(bus["s"]) = k
      /\ FlipsGrabbed(ctrls) = {}

(* C3: with two callers at once, no write of one operation lands between two *)
(* writes of another operation, and none between a hold and its release.     *)
C3_NoInterleaving ==
  \A t \in Threads : ~ilv[t].split /\ ~ilv[t].groupSplit

(* the last held write of t is over *)
GroupOver(t) == grp[t].from >= 0 /\ ~In(t, "imx662_write_buffered_reg")
GroupEvents(t) ==
  SubSeq(bus[t], grp[t].from + 1, Min(Len(bus[t]), grp[t].from + grp[t].n + 2))
GroupOk(t) == \A i \in 1..Len(GroupEvents(t)) : GroupEvents(t)[i].res = 0

(* C4: a held write of n bytes of which every write succeeds is exactly n+2  *)
(* writes: REGHOLD = 1, byte i of the value (least significant first) at     *)
(* address A+i for i = 0..n-1, REGHOLD = 0.                                  *)
C4_HeldWrite ==
  \A t \in Threads :
    (GroupOver(t) /\ GroupOk(t)) =>
      LET g == GroupEvents(t)
          n == grp[t].n
      IN /\ Len(g) = n + 2
         /\ g[1] = WriteEv(IMX662_REGHOLD, 1, 0)
         /\ \A i \in 0..(n - 1) :
              g[i + 2] = WriteEv(grp[t].addr + i, (grp[t].value \div (256 ^ i)) % 256, 0)
         /\ g[n + 2] = WriteEv(IMX662_REGHOLD, 0, 0)

C4_Witness ==
  \E t \in Threads :
    GroupOver(t) /\ GroupOk(t) /\ grp[t].n = 3 /\ grp[t].value > 255

(* C5: the release of a held write is skipped only when the hold write       *)
(* failed: after a failed value byte the release REGHOLD = 0 is still        *)
(* attempted.                                                                *)
C5_ReleaseAttempted ==
  \A t \in Threads :
    (GroupOver(t) /\ GroupEvents(t)[1].res = 0) =>
      LET g == GroupEvents(t) IN
        \A j \in 2..Len(g) :
          (g[j].res # 0 /\ g[j].addr # IMX662_REGHOLD) =>
            /\ Len(g) > j
            /\ g[j + 1].addr = IMX662_REGHOLD
            /\ g[j + 1].val = 0

(* C6: stop_stream is best effort: when the STANDBY write fails the XMSTA    *)
(* stop bit is still written, and the first error is returned.               *)
C6_StopBestEffort ==
  (StopDone /\ bus["s"] # << >> /\ bus["s"][1].res # 0) =>
    /\ \E i \in 2..Len(bus["s"]) :
         IsWrite(bus["s"][i]) /\ bus["s"][i].addr = IMX662_XMSTA /\ bus["s"][i].val = 1
    /\ rv["s"] = bus["s"][1].res

(* C7: in start_stream and in stop_stream the 30 ms delay lies between the   *)
(* STANDBY write and the final XMSTA write.                                  *)
C7_SettleDelay ==
  LET b == bus["s"]
      v == IF call["s"].a # 0 THEN 0 ELSE 1
  IN call["s"].op = "s_stream" =>
       /\ \A i \in 1..Len(b) :
            (IsWrite(b[i]) /\ b[i].addr = IMX662_XMSTA
               /\ \E j \in 1..(i - 1) : IsWrite(b[j]) /\ b[j].addr = IMX662_STANDBY)
            => /\ i >= 3
               /\ b[i - 1] = SleepEv(30)
               /\ b[i - 2] = WriteEv(IMX662_STANDBY, v, 0)
       /\ (StreamDone /\ b # << >> /\ AllOk("s")) =>
            /\ Len(b) >= 3
            /\ b[Len(b)].addr = IMX662_XMSTA /\ b[Len(b)].val = v
            /\ b[Len(b) - 1] = SleepEv(30)
            /\ b[Len(b) - 2] = WriteEv(IMX662_STANDBY, v, 0)

C7_Witness ==
  StopDone /\ AllOk("s") /\ Len(bus["s"]) = 3 /\ snap["s"].lastStream = "start_ok"

(* C8: the flips are locked exactly while streaming: after a successful      *)
(* start_stream a set_control on a flip returns an error, writes neither     *)
(* 0x3020 nor 0x3021 and leaves the value; after stop_stream the flips are   *)
(* unlocked and a set_control on a flip is taken; a failed start_stream      *)
(* from unlocked flips leaves them unlocked.                                 *)
C8_FlipLock ==
  /\ (call["s"].op = "none" /\ lastStream = "start_ok") => FlipsGrabbed(ctrls) = Flips
  /\ (call["s"].op = "none" /\ lastStream = "stop") => FlipsGrabbed(ctrls) = {}
  /\ (CtrlDone(Flips) /\ snap["c"].lastStream = "start_ok") =>
       /\ rv["c"] = -EBUSY
       /\ \A i \in 1..Len(bus["c"]) :
            bus["c"][i].addr \notin {IMX662_FLIP_WINMODEH, IMX662_FLIP_WINMODEV}
       /\ ctrls[call["c"].a].cur = snap["c"].ctrls[call["c"].a].cur
  /\ (CtrlDone(Flips) /\ snap["c"].lastStream = "stop") =>
       /\ rv["c"] # -EBUSY
       /\ rv["c"] = 0 => ctrls[call["c"].a].cur = call["c"].b
  /\ (StartDone /\ rv["s"] # 0 /\ FlipsGrabbed(snap["s"].ctrls) = {}) =>
       FlipsGrabbed(ctrls) = {}

C8_Witness ==
  /\ CtrlDone(Flips)
  /\ snap["c"].lastStream = "start_ok"
  /\ call["c"].b # snap["c"].ctrls[call["c"].a].cur
  /\ rv["c"] = -EBUSY

(* C9: set_format on the ACTIVE format while streaming is rejected and       *)
(* changes nothing.                                                          *)
C9_SetFmtRejected ==
  (/\ Done("c") /\ call["c"].op = "set_fmt" /\ call["c"].a = V4L2_SUBDEV_FORMAT_ACTIVE
   /\ snap["c"].lastStream = "start_ok") =>
    /\ rv["c"] < 0
    /\ current_format = snap["c"].current_format
    /\ current_mode = snap["c"].current_mode
    /\ bpp = snap["c"].bpp
    /\ ctrls = snap["c"].ctrls

(* the held or single write set_control makes for the value v of control id, *)
(* with the vertical blanking vb: <<address, bytes, register value>>         *)
CachedWrite(id, v, vb) ==
  CASE id = "gain" -> <<IMX662_GAIN, 2, v>>
    [] id = "exposure" -> <<IMX662_EXPOSURE, 3, Mode.height + vb - v - 1>>
    [] id = "hblank" -> <<IMX662_HMAX, 2, (v + Mode.width) \div 2>>
    [] id = "vblank" -> <<IMX662_VMAX, 3, v + Mode.height>>
    [] id = "hflip" -> <<IMX662_FLIP_WINMODEH, 1, v>>
    [] id = "vflip" -> <<IMX662_FLIP_WINMODEV, 1, v>>
Written(t, cw) ==
  \E i \in 1..Len(bus[t]) :
    \A k \in 0..(cw[2] - 1) :
      /\ i + k <= Len(bus[t])
      /\ bus[t][i + k] = WriteEv(cw[1] + k, (cw[3] \div (256 ^ k)) % 256, 0)

(* C10: a set_control while powered down returns success, writes nothing and *)
(* caches the value; the next start_stream writes the cached value of every  *)
(* such control to its register.                                             *)
C10_CachedThenApplied ==
  /\ (CtrlDone(CtrlIds) /\ snap["c"].usage_count = 0) =>
       /\ rv["c"] = 0
       /\ bus["c"] = << >>
       /\ ctrls[call["c"].a].cur = validate_new(snap["c"].ctrls[call["c"].a], call["c"].b)
  /\ (StartDone /\ bus["s"] # << >> /\ AllOk("s")) =>
       \A id \in snap["s"].offline :
         Written("s", CachedWrite(id, snap["s"].ctrls[id].cur,
                                  snap["s"].ctrls["vblank"].cur))

(* C11: when start_stream fails at a step after power-on, the power          *)
(* reference taken for the start is still held, the device is not streaming  *)
(* (the flips are as they were), and the error returned is the error of the  *)
(* step that failed.                                                         *)
C11_FailedStartStaysPowered ==
  (StartDone /\ rv["s"] # 0 /\ bus["s"] # << >>) =>
    /\ usage_count = snap["s"].usage_count + 1
    /\ FlipsGrabbed(ctrls) = FlipsGrabbed(snap["s"].ctrls)
    /\ ~AllOk("s") => rv["s"] = bus["s"][FirstFail("s")].res

(* no public call is in progress *)
Quiescent == \A t \in Threads : call[t].op = "none"

(* C12: wherever the exposure range is published (construction, set_format,  *)
(* a vblank change) it is non-empty, its lower bound is 1 and its upper      *)
(* bound is mode.height + vb - 2 for the vertical blanking vb.                *)
C12_ExposureRange ==
  Quiescent =>
    /\ ctrls["exposure"].minimum = 1
    /\ ctrls["exposure"].minimum <= ctrls["exposure"].maximum
    /\ ctrls["exposure"].maximum = Mode.height + ctrls["vblank"].cur - 2

(* the writes of an all-success held write of the n low bytes of value at addr *)
HeldGroup(addr, n, value) ==
  <<WriteEv(IMX662_REGHOLD, 1, 0)>>
    \o [i \in 1..n |-> WriteEv(addr + i - 1, (value \div (256 ^ (i - 1))) % 256, 0)]
    \o <<WriteEv(IMX662_REGHOLD, 0, 0)>>

(* a set_control on power: the device was in use when the call began *)
PoweredCtrlDone(ids) == CtrlDone(ids) /\ snap["c"].usage_count > 0

Written3(t) == bus[t][2].val + 256 * bus[t][3].val + 65536 * bus[t][4].val

(* C14: the exposure register value written is strictly decreasing in the    *)
(* exposure (it is height + vblank - 1 less the exposure, never wrapped      *)
(* around), and for the exposure at the maximum of the published range the   *)
(* value written is exactly 1.                                               *)
C14_EncodingAtMaximum ==
  (PoweredCtrlDone({"exposure"}) /\ Len(bus["c"]) = 5 /\ AllOk("c")) =>
    LET e == ctrls["exposure"].cur IN
      /\ Written3("c") + e = Mode.height + ctrls["vblank"].val - 1
      /\ Written3("c") >= 0
      /\ e = ctrls["exposure"].maximum => Written3("c") = 1

(* C15: the hblank range published at construction and after an active      *)
(* set_format is [0, HMAX_MAX - width] with default hmax - width, the vblank *)
(* range is [0, VMAX_MAX - height] with default vmax - height, and after an  *)
(* active set_format each blank control has its default as value.            *)
C15_BlankRanges ==
  /\ Quiescent =>
       /\ ctrls["hblank"].minimum = 0
       /\ ctrls["hblank"].maximum = IMX662_HMAX_MAX - Mode.width
       /\ ctrls["hblank"].default_value = Mode.hmax - Mode.width
       /\ ctrls["vblank"].minimum = 0
       /\ ctrls["vblank"].maximum = IMX662_VMAX_MAX - Mode.height
       /\ ctrls["vblank"].default_value = Mode.vmax - Mode.height
  /\ (Done("c") /\ call["c"].op = "set_fmt" /\ call["c"].a = V4L2_SUBDEV_FORMAT_ACTIVE) =>
       /\ ctrls["hblank"].cur = Mode.hmax - Mode.width
       /\ ctrls["vblank"].cur = Mode.vmax - Mode.height

FmtDone(op, which) == Done("c") /\ call["c"].op = op /\ call["c"].a = which
FormatCodes == {cfg.formats[i].code : i \in 1..IMX662_NUM_FORMATS}
CatalogSizes == {<<imx662_modes[i].width, imx662_modes[i].height>> : i \in 1..IMX662_NUM_MODES}
FormatOf(f) == [width |-> f.width, height |-> f.height, code |-> f.code]

(* C16: after an active set_format whose size is a catalog mode's and whose  *)
(* code is one of the variant's formats, the active format is the one        *)
(* requested; get_format on the active format returns the active format; and *)
(* no operation but an active set_format changes the active format.          *)
C16_FormatRoundTrip ==
  /\ (/\ FmtDone("set_fmt", V4L2_SUBDEV_FORMAT_ACTIVE)
      /\ call["c"].size \in CatalogSizes
      /\ call["c"].b \in FormatCodes) =>
       /\ rv["c"] = 0
       /\ current_format = [width |-> call["c"].size[1], height |-> call["c"].size[2],
                            code |-> call["c"].b]
  /\ FmtDone("get_fmt", V4L2_SUBDEV_FORMAT_ACTIVE) =>
       /\ rv["c"] = 0
       /\ FormatOf(fmtarg["c"]) = current_format
  /\ \A t \in Threads :
       (Done(t) /\ ~FmtDone("set_fmt", V4L2_SUBDEV_FORMAT_ACTIVE)) =>
         current_format = snap[t].current_format

C16_Witness ==
  /\ FmtDone("get_fmt", V4L2_SUBDEV_FORMAT_ACTIVE)
  /\ fmtarg["c"].code = cfg.formats[2].code
  /\ try_format.code = cfg.formats[1].code

(* C17: with the one-entry mode catalog set_format takes that entry for any  *)
(* requested size: the format returned and stored is 1936 x 1100, and a      *)
(* requested code that is not one of the variant's formats is replaced by    *)
(* the format at index 0.                                                    *)
C17_NearestModeAndCode ==
  (Done("c") /\ call["c"].op = "set_fmt") =>
    LET code == IF call["c"].b \in FormatCodes THEN call["c"].b ELSE cfg.formats[1].code
        stored == IF call["c"].a = V4L2_SUBDEV_FORMAT_TRY THEN try_format ELSE current_format
    IN /\ rv["c"] = 0
       /\ FormatOf(fmtarg["c"]) = [width |-> 1936, height |-> 1100, code |-> code]
       /\ stored = FormatOf(fmtarg["c"])

C17_Witness ==
  /\ Done("c") /\ call["c"].op = "set_fmt"
  /\ call["c"].size \notin CatalogSizes
  /\ call["c"].b \notin FormatCodes
  /\ call["c"].a = V4L2_SUBDEV_FORMAT_ACTIVE
  /\ snap["c"].current_format.code = cfg.formats[2].code

(* the bit depth of the active pixel format, 0 when it is none of the formats *)
ActiveDepth ==
  IF current_format.code \in FormatCodes
  THEN (CHOOSE f \in {cfg.formats[i] : i \in 1..IMX662_NUM_FORMATS} :
          f.code = current_format.code).bpp
  ELSE 0
BitDepthRegs == {IMX662_ADBIT, IMX662_MDBIT}
StartCall == call["s"].op = "s_stream" /\ call["s"].a # 0

(* C18: start_stream writes ADBIT and MDBIT both with 0x00 when the active   *)
(* format is 10-bit and both with 0x01 when it is 12-bit; with any other     *)
(* format the step fails with -EINVAL and neither register is written.       *)
C18_BitDepthRegisters ==
  StartCall =>
    LET b == bus["s"]
        v == CASE ActiveDepth = 10 -> 0 [] ActiveDepth = 12 -> 1 [] OTHER -> -1
        at == Len(imx662_global_settings) + 3
    IN /\ \A i \in 1..Len(b) :
            (IsWrite(b[i]) /\ b[i].addr \in BitDepthRegs) => (v >= 0 /\ b[i].val = v)
       /\ (Len(b) > at /\ AllOk("s")) =>
            /\ b[at] = WriteEv(IMX662_ADBIT, v, 0)
            /\ b[at + 1] = WriteEv(IMX662_MDBIT, v, 0)
       /\ (v < 0 /\ Done("s") /\ b # << >> /\ AllOk("s")) => rv["s"] = -EINVAL

C18_Witness ==
  /\ StartDone /\ rv["s"] = 0 /\ AllOk("s")
  /\ ActiveDepth = 12
  /\ \E i \in 1..Len(bus["s"]) : bus["s"][i] = WriteEv(IMX662_MDBIT, 1, 0)

(* C19: a register write that fails inside a powered set_control ends the   *)
(* call at once and is returned: no write follows the failed one (for        *)
(* vblank, no exposure re-write after a failed VMAX write), and the call     *)
(* returns the error whichever of its writes failed.                         *)
C19_CtrlAbortsOnFailure ==
  (PoweredCtrlDone(CtrlIds) /\ ~AllOk("c")) =>
    LET k == FirstFail("c") IN
      /\ Len(bus["c"]) = k
      /\ rv["c"] = bus["c"][k].res

(* C20: the start sequence runs only from Idle and the stop sequence only    *)
(* from Streaming: a start_stream while streaming writes nothing, and a      *)
(* stop_stream while idle writes nothing and releases no power reference.    *)
C20_StreamTransitions ==
  /\ (StartDone /\ snap["s"].lastStream = "start_ok") =>
       /\ bus["s"] = << >>
       /\ usage_count = snap["s"].usage_count
  /\ (StopDone /\ snap["s"].lastStream \in {"none", "stop"}) =>
       /\ bus["s"] = << >>
       /\ usage_count = snap["s"].usage_count

(* C21: setting gain g while powered writes g as a 2-byte held group at the  *)
(* gain register and then, outside the held group, the conversion-gain       *)
(* select register; the value written there is the low-gain code 0x00 for    *)
(* every g, below the 0x22 threshold and from it on.                         *)
C21_GainLowConversion ==
  /\ (PoweredCtrlDone({"gain"}) /\ bus["c"] # << >> /\ AllOk("c")) =>
       /\ bus["c"] = HeldGroup(IMX662_GAIN, 2, call["c"].b)
                       \o <<WriteEv(IMX662_FR_FDG_SEL0, IMX662_FDG_SEL0_LCG, 0)>>
       /\ rv["c"] = 0
       /\ ctrls["gain"].cur = call["c"].b
  /\ \A t \in Threads : \A i \in 1..Len(bus[t]) :
       bus[t][i].addr = IMX662_FR_FDG_SEL0 =>
         /\ bus[t][i].val = \h00
         /\ i > 1
         /\ bus[t][i - 1] = WriteEv(IMX662_REGHOLD, 0, 0)

(* a powered gain write on each side of the threshold: from a gain of 0x22   *)
(* or more to one below it                                                   *)
C21_Witness ==
  /\ PoweredCtrlDone({"gain"}) /\ Len(bus["c"]) = 5 /\ AllOk("c")
  /\ call["c"].b < \h22
  /\ snap["c"].ctrls["gain"].cur >= \h22

(* the exposure maxima the driver derives from a vertical blanking vb: the   *)
(* one of construction and set_format, and the one of a vblank change        *)
DerivedMaxima(vb) ==
  {Mode.height + vb - 2, Mode.height + vb - IMX662_EXPOSURE_OFFSET}

(* C22: the exposure range is recomputed on every change of vertical blank,  *)
(* powered or not: after a set_control(vblank) that returns success the      *)
(* published exposure maximum is one derived from the new vblank value, and  *)
(* the stored exposure lies inside the published range.                      *)
C22_RangeFollowsVblank ==
  (CtrlDone({"vblank"}) /\ rv["c"] = 0) =>
    /\ ctrls["exposure"].maximum \in DerivedMaxima(ctrls["vblank"].cur)
    /\ ctrls["exposure"].cur >= ctrls["exposure"].minimum
    /\ ctrls["exposure"].cur <= ctrls["exposure"].maximum

(* C23: setting horizontal blank h while powered writes, as a 2-byte held    *)
(* group at the HMAX register, the value (h + mode.width) >> 1, rounded      *)
(* down; for h in the legal hblank range, its maximum included, the value    *)
(* fits in 16 bits, so the two bytes written are the whole value.            *)
C23_HmaxEncoding ==
  (PoweredCtrlDone({"hblank"}) /\ bus["c"] # << >> /\ AllOk("c")) =>
    LET h == validate_new(snap["c"].ctrls["hblank"], call["c"].b)
        value == (h + Mode.width) \div 2
    IN /\ h >= ctrls["hblank"].minimum /\ h <= ctrls["hblank"].maximum
       /\ 2 * value <= h + Mode.width /\ h + Mode.width < 2 * value + 2
       /\ value < 2 ^ 16
       /\ (ctrls["hblank"].maximum + Mode.width) \div 2 < 2 ^ 16
       /\ bus["c"] = HeldGroup(IMX662_HMAX, 2, value)
       /\ bus["c"][2].val + 256 * bus["c"][3].val = value
       /\ rv["c"] = 0
       /\ ctrls["hblank"].cur = h

(* the largest legal hblank written on power *)
C23_Witness ==
  /\ PoweredCtrlDone({"hblank"}) /\ Len(bus["c"]) = 4 /\ AllOk("c")
  /\ ctrls["hblank"].cur = ctrls["hblank"].maximum
  /\ bus["c"][3].val = \h7f

(* the 24-bit value the device holds in the three registers from addr on *)
Reg3(r, addr) == r[addr] + 256 * r[addr + 1] + 65536 * r[addr + 2]
(* the device's timing registers agree with the control values cs *)
InSync(r, cs) ==
  /\ Reg3(r, IMX662_VMAX) = cs["vblank"].cur + Mode.height
  /\ Reg3(r, IMX662_EXPOSURE) =
       (Mode.height + cs["vblank"].cur) - cs["exposure"].cur - 1
(* b ends with the sequence e *)
EndsWith(b, e) == Len(b) >= Len(e) /\ SubSeq(b, Len(b) - Len(e) + 1, Len(b)) = e

(* C24: setting vertical blank v while powered writes v + mode.height as a   *)
(* 3-byte held group at the VMAX register and then re-writes the exposure    *)
(* register for the new vblank; after a successful start followed by         *)
(* successful powered set_control(vblank) and set_control(exposure) calls    *)
(* only, the device's VMAX register is vblank + mode.height and its          *)
(* exposure register is (mode.height + vblank) - exposure - 1 for the        *)
(* current values of the two controls.                                       *)
C24_TimingRegisters ==
  /\ (PoweredCtrlDone({"vblank"}) /\ bus["c"] # << >> /\ AllOk("c")) =>
       LET v == ctrls["vblank"].cur
           e == ctrls["exposure"].cur
           vmaxGroup == HeldGroup(IMX662_VMAX, 3, v + Mode.height)
       IN /\ v = validate_new(snap["c"].ctrls["vblank"], call["c"].b)
          /\ Len(bus["c"]) >= 10
          /\ SubSeq(bus["c"], 1, 5) = vmaxGroup
          /\ EndsWith(SubSeq(bus["c"], 6, Len(bus["c"])),
                      HeldGroup(IMX662_EXPOSURE, 3, (Mode.height + v) - e - 1))
  /\ (Quiescent /\ timingOnly) => InSync(regs, ctrls)

HoldWrites(t) ==
  SelectSeq(bus[t], LAMBDA e : IsWrite(e) /\ e.addr = IMX662_REGHOLD /\ e.res = 0)

(* C26: when a set_control or start_stream call returns success, the last    *)
(* write of the call that reached the hold register (0x3001) wrote 0: no     *)
(* call that reports success leaves the device latched in hold.              *)
C26_HoldReleased ==
  \A t \in Threads :
    (/\ Done(t) /\ rv[t] = 0
     /\ call[t].op = "s_ctrl" \/ (call[t].op = "s_stream" /\ call[t].a # 0)
     /\ HoldWrites(t) # << >>) =>
      HoldWrites(t)[Len(HoldWrites(t))].val = 0

(* C27: a set_format on the TRY format changes the try format only: the      *)
(* active format, the current mode, the bit depth and every control          *)
(* (hblank, vblank, exposure and pixel rate among them, range and value)     *)
(* are as before, and no register is written.                                *)
C27_TryFormatFrame ==
  FmtDone("set_fmt", V4L2_SUBDEV_FORMAT_TRY) =>
    /\ rv["c"] = 0
    /\ current_format = snap["c"].current_format
    /\ current_mode = snap["c"].current_mode
    /\ bpp = snap["c"].bpp
    /\ ctrls = snap["c"].ctrls
    /\ bus["c"] = << >>
    /\ regs = snap["c"].regs
    /\ usage_count = snap["c"].usage_count

(* a TRY set_format that changed the try format away from the active one *)
C27_Witness ==
  /\ FmtDone("set_fmt", V4L2_SUBDEV_FORMAT_TRY)
  /\ try_format # snap["c"].try_format
  /\ try_format.code # current_format.code

(* a write that clears the master-start register *)
ClearsXmsta(e) == IsWrite(e) /\ e.addr = IMX662_XMSTA /\ e.val = \h00

(* C28: during start_stream no write clears the master-start register        *)
(* (0x3002 = 0x00) before the standby register has been cleared and the      *)
(* settle delay has elapsed, and the only master-start clear of a start      *)
(* sequence that ran to its end is its final write.                          *)
C28_MasterStartLast ==
  StartCall =>
    LET b == bus["s"] IN
      /\ \A i \in 1..Len(b) :
           ClearsXmsta(b[i]) =>
             /\ i >= 3
             /\ b[i - 1] = SleepEv(30)
             /\ b[i - 2] = WriteEv(IMX662_STANDBY, \h00, 0)
      /\ (StartDone /\ rv["s"] = 0) =>
           \A i \in 1..Len(b) : ClearsXmsta(b[i]) => i = Len(b)

====
